---- MODULE Spec2Model ----
(***************************************************************************)
(* Model of src/csvplugin.py: class CSVPlugin, a store that holds zero or  *)
(* one pandas DataFrame (self.dataframe) and offers load_csv, get_data and *)
(* query_data.  The pandas calls the class makes (read_csv, to_dict,       *)
(* DataFrame.query) are modelled by what they do on small CSV texts.       *)
(***************************************************************************)
EXTENDS Integers, Sequences, FiniteSets, TLC

\* ------------------------------------------------------------------ bounds
MaxRows == 2          \* most data rows of a modelled CSV text
MaxCalls == 3         \* most calls started in the interleaved specification

\* ------------------------------------------------------------ CSV texts
\* A cell is the sequence of its characters; the empty cell is <<>>.
Digits == {"0", "1", "2", "3", "4", "5", "6", "7", "8", "9"}

DigitVal(c) ==
    CASE c = "0" -> 0 [] c = "1" -> 1 [] c = "2" -> 2 [] c = "3" -> 3
      [] c = "4" -> 4 [] c = "5" -> 5 [] c = "6" -> 6 [] c = "7" -> 7
      [] c = "8" -> 8 [] c = "9" -> 9 [] OTHER -> 0

\* rank of a character in the ordering Python uses to compare strings
CharRank(c) == IF c \in Digits THEN 48 + DigitVal(c) ELSE 120

Headers == { <<"a", "b">>, <<"b", "c">> }

\* The data lines the modelled texts are made of: numbers, an empty first
\* field, and a second field that is a word or a number.
DataRows ==
    { <<(<<"2">>), (<<"x">>)>>,
      <<(<<"1", "0">>), (<<"7">>)>>,
      <<(<<>>), (<<"7">>)>>,
      <<(<<"1", "0">>), (<<"x">>)>> }

RECURSIVE SeqsUpTo(_, _)
SeqsUpTo(S, n) ==
    IF n = 0 THEN { <<>> }
    ELSE LET shorter == SeqsUpTo(S, n - 1)
         IN  shorter \cup { Append(s, x) : s \in { t \in shorter : Len(t) = n - 1 }, x \in S }

\* A well-formed CSV text: a header line and up to MaxRows data lines (the
\* texts with the second header have at most one data line).
ValidTexts ==
    { [empty |-> FALSE, header |-> <<"a", "b">>, lines |-> ls] : ls \in SeqsUpTo(DataRows, MaxRows) }
    \cup { [empty |-> FALSE, header |-> <<"b", "c">>, lines |-> ls] : ls \in SeqsUpTo(DataRows, 1) }

\* Texts the parser rejects: a file with no bytes, and a file whose second
\* data line has more fields than the lines before it.
EmptyText == [empty |-> TRUE, header |-> <<>>, lines |-> <<>>]
LongLineText ==
    [empty |-> FALSE, header |-> <<"a", "b">>,
     lines |-> << <<(<<"2">>), (<<"x">>)>>, <<(<<"2">>), (<<"x">>), (<<"7">>)>> >>]
MalformedTexts == { EmptyText, LongLineText }

\* What load_csv can be called with: a path string (of a file that exists or
\* not), an open stream, or an object that is neither (for example an int).
Sources ==
    { [kind |-> "path", exists |-> TRUE, text |-> t] : t \in ValidTexts \cup MalformedTexts }
    \cup { [kind |-> "path", exists |-> FALSE, text |-> EmptyText] }
    \cup { [kind |-> "stream", exists |-> TRUE, text |-> t] :
             t \in { v \in ValidTexts : Len(v.lines) = 0 } \cup MalformedTexts }
    \cup { [kind |-> "other", exists |-> FALSE, text |-> EmptyText] }

NoSource == [kind |-> "none", exists |-> FALSE, text |-> EmptyText]

\* --------------------------------------------------------- scalar values
NaN == [kind |-> "nan", n |-> 0, s |-> <<>>]
IntVal(n) == [kind |-> "int", n |-> n, s |-> <<>>]
FloatVal(n) == [kind |-> "float", n |-> n, s |-> <<>>]
StrVal(s) == [kind |-> "str", n |-> 0, s |-> s]

IsNumericCell(cell) == Len(cell) > 0 /\ \A i \in 1..Len(cell) : cell[i] \in Digits

RECURSIVE ParseInt(_)
ParseInt(cell) ==
    IF Len(cell) = 0 THEN 0
    ELSE 10 * ParseInt(SubSeq(cell, 1, Len(cell) - 1)) + DigitVal(cell[Len(cell)])

\* ------------------------------------------------------------ DataFrames
None == [isNone |-> TRUE, columns |-> <<>>, dtypes |-> <<>>, rows |-> <<>>]
Frame(cols, dts, rws) == [isNone |-> FALSE, columns |-> cols, dtypes |-> dts, rows |-> rws]

\* the dtype pandas infers for column j of the data lines
InferDtype(lines, j) ==
    IF Len(lines) = 0 THEN "object"
    ELSE IF \A i \in 1..Len(lines) : IsNumericCell(lines[i][j]) THEN "int64"
    ELSE IF \A i \in 1..Len(lines) : IsNumericCell(lines[i][j]) \/ lines[i][j] = <<>> THEN "float64"
    ELSE "object"

\* the value a cell becomes in a column of the given dtype
ConvertCell(cell, dtype) ==
    IF cell = <<>> THEN NaN
    ELSE IF dtype = "int64" THEN IntVal(ParseInt(cell))
    ELSE IF dtype = "float64" THEN FloatVal(ParseInt(cell))
    ELSE StrVal(cell)

\* pd.read_csv(path): raises (raised = TRUE) or returns a DataFrame
read_csv(src) ==
    LET t == src.text
        bad == \/ ~src.exists
               \/ t.empty
               \/ \E i \in 1..Len(t.lines) : Len(t.lines[i]) > Len(t.header)
        dts == [j \in 1..Len(t.header) |-> InferDtype(t.lines, j)]
    IN  IF bad THEN [raised |-> TRUE, df |-> None]
        ELSE [raised |-> FALSE,
              df |-> Frame(t.header, dts,
                           [i \in 1..Len(t.lines) |->
                              [j \in 1..Len(t.header) |-> ConvertCell(t.lines[i][j], dts[j])]])]

\* isinstance(path, (str, IOBase))
IsStrOrIOBase(src) == src.kind \in {"path", "stream"}

\* variant: the held table is dropped before parsing, so a failed load clears it
load_csv_dataframe_clears(df, src) ==
    IF IsStrOrIOBase(src)
    THEN LET r == read_csv(src) IN IF r.raised THEN None ELSE r.df
    ELSE None

\* variant: the parsed rows are appended to a held table with the same columns
load_csv_dataframe_appends(df, src) ==
    IF IsStrOrIOBase(src)
    THEN LET r == read_csv(src)
         IN  IF r.raised THEN df
             ELSE IF ~df.isNone /\ df.columns = r.df.columns
                  THEN Frame(df.columns, r.df.dtypes, df.rows \o r.df.rows)
                  ELSE r.df
    ELSE df

\* load_csv: the value of self.dataframe when the call returns
load_csv_dataframe(df, src) ==
    IF IsStrOrIOBase(src)
    THEN LET r == read_csv(src) IN IF r.raised THEN df ELSE r.df
    ELSE df

\* load_csv: the value returned
load_csv_return(src) ==
    IF IsStrOrIOBase(src) THEN ~read_csv(src).raised ELSE FALSE

\* ------------------------------------------------------------------ state
VARIABLES
    dataframe,    \* self.dataframe
    last,         \* the call that returned last: operation, argument, result
    loaded,       \* whether some load_csv call has returned True
    held,         \* the CSV text the held table was read from
    task,         \* interleaved calls: each task's position, argument and locals
    whole,        \* the table read_csv returned to the load that assigned last
    calls         \* number of interleaved calls started

\* ------------------------------------------------- get_data / query_data
\* the Optional[List[CSVRow]] a call returns
Absent == [isNone |-> TRUE, rows |-> <<>>]
Rows(rs) == [isNone |-> FALSE, rows |-> rs]

\* DataFrame.to_dict(orient='records'): one mapping per row, in row order
to_dict_records(df) ==
    [i \in 1..Len(df.rows) |->
        [c \in { df.columns[j] : j \in 1..Len(df.columns) } |->
            df.rows[i][CHOOSE j \in 1..Len(df.columns) : df.columns[j] = c]]]

\* variant: enumerate(data, 1)
enumerate_rows_from_one(data) ==
    [i \in 1..Len(data) |-> [index |-> i, data |-> data[i]]]

\* [{"index": i, "data": row} for i, row in enumerate(data)]
enumerate_rows(data) ==
    [i \in 1..Len(data) |-> [index |-> i - 1, data |-> data[i]]]

\* variant: an empty list instead of None when nothing is loaded
get_data_empty_when_none(df) ==
    IF df.isNone THEN Rows(<<>>)
    ELSE Rows(enumerate_rows(to_dict_records(df)))

get_data(df) ==
    IF df.isNone THEN Absent
    ELSE Rows(enumerate_rows(to_dict_records(df)))

\* Conditions: a comparison of a column with a literal, or a string that
\* does not parse as an expression.
ColumnRefs == {"a", "b", "z"}
CmpOps == {">", "<=", "=="}
Literals == { IntVal(5), IntVal(10), StrVal(<<"x">>) }
SyntaxError == [kind |-> "syntax", col |-> "", op |-> "", rhs |-> NaN]
Conditions ==
    { [kind |-> "cmp", col |-> c, op |-> o, rhs |-> r] :
        c \in ColumnRefs, o \in CmpOps, r \in Literals } \cup { SyntaxError }
NoCondition == [kind |-> "none", col |-> "", op |-> "", rhs |-> NaN]

RECURSIVE StrLess(_, _)
StrLess(x, y) ==
    IF Len(y) = 0 THEN FALSE
    ELSE IF Len(x) = 0 THEN TRUE
    ELSE IF CharRank(x[1]) # CharRank(y[1]) THEN CharRank(x[1]) < CharRank(y[1])
    ELSE StrLess(Tail(x), Tail(y))

IsNumber(v) == v.kind \in {"int", "float"}

\* variant: "<=" evaluated as "<"
CompareElement_strict(v, op, rhs) ==
    IF v.kind = "nan" THEN "F"
    ELSE IF IsNumber(v) /\ IsNumber(rhs)
         THEN IF \/ op = ">" /\ v.n > rhs.n
                 \/ op = "<=" /\ v.n < rhs.n
                 \/ op = "==" /\ v.n = rhs.n
              THEN "T" ELSE "F"
    ELSE IF v.kind = "str" /\ rhs.kind = "str"
         THEN IF \/ op = ">" /\ StrLess(rhs.s, v.s)
                 \/ op = "<=" /\ StrLess(v.s, rhs.s)
                 \/ op = "==" /\ v.s = rhs.s
              THEN "T" ELSE "F"
    ELSE IF op = "==" THEN "F" ELSE "E"

\* one element against the literal: "T", "F", or "E" when Python raises
\* TypeError for the pair
CompareElement(v, op, rhs) ==
    IF v.kind = "nan" THEN "F"
    ELSE IF IsNumber(v) /\ IsNumber(rhs)
         THEN IF \/ op = ">" /\ v.n > rhs.n
                 \/ op = "<=" /\ v.n <= rhs.n
                 \/ op = "==" /\ v.n = rhs.n
              THEN "T" ELSE "F"
    ELSE IF v.kind = "str" /\ rhs.kind = "str"
         THEN IF \/ op = ">" /\ StrLess(rhs.s, v.s)
                 \/ op = "<=" /\ ~StrLess(rhs.s, v.s)
                 \/ op = "==" /\ v.s = rhs.s
              THEN "T" ELSE "F"
    ELSE IF op = "==" THEN "F" ELSE "E"

\* the boolean mask of a comparison over a column; raises when the column's
\* dtype or one of its elements cannot be ordered against the literal
ColumnMask(df, j, op, rhs) ==
    LET elems == [i \in 1..Len(df.rows) |-> CompareElement(df.rows[i][j], op, rhs)]
        \* a numeric column cannot be ordered against a string literal;
        \* equality with one is evaluated as membership and is False
        dtypeError == /\ df.dtypes[j] \in {"int64", "float64"}
                      /\ rhs.kind = "str"
                      /\ op # "=="
    IN  IF dtypeError \/ \E i \in 1..Len(elems) : elems[i] = "E"
        THEN [raised |-> TRUE, mask |-> <<>>]
        ELSE [raised |-> FALSE, mask |-> [i \in 1..Len(elems) |-> elems[i] = "T"]]

RECURSIVE FilterRows(_, _)
FilterRows(rows, mask) ==
    IF Len(rows) = 0 THEN <<>>
    ELSE LET rest == FilterRows(Tail(rows), Tail(mask))
         IN  IF Head(mask) THEN <<Head(rows)>> \o rest ELSE rest

\* DataFrame.query(condition): raises or returns the DataFrame of the rows
\* the condition selects
DataFrame_query(df, cond) ==
    IF cond.kind # "cmp" THEN [raised |-> TRUE, df |-> None]
    ELSE IF ~\E j \in 1..Len(df.columns) : df.columns[j] = cond.col
         THEN [raised |-> TRUE, df |-> None]
    ELSE LET j == CHOOSE k \in 1..Len(df.columns) : df.columns[k] = cond.col
             m == ColumnMask(df, j, cond.op, cond.rhs)
         IN  IF m.raised THEN [raised |-> TRUE, df |-> None]
             ELSE [raised |-> FALSE,
                   df |-> Frame(df.columns, df.dtypes, FilterRows(df.rows, m.mask))]

\* variant: the rows keep the positions they have in the whole table
query_data_keeps_position(df, cond) ==
    IF df.isNone THEN Absent
    ELSE LET q == DataFrame_query(df, cond)
             all == to_dict_records(df)
             kept == to_dict_records(q.df)
         IN  IF q.raised THEN Absent
             ELSE Rows([k \in 1..Len(kept) |->
                          [index |-> (CHOOSE i \in 1..Len(all) :
                                         /\ all[i] = kept[k]
                                         /\ \A h \in 1..Len(all) : all[h] = kept[k] => i <= h) - 1,
                           data |-> kept[k]]])

\* variant: the except branch returns an empty list
query_data_empty_on_error(df, cond) ==
    IF df.isNone THEN Absent
    ELSE LET q == DataFrame_query(df, cond)
         IN  IF q.raised THEN Rows(<<>>)
             ELSE Rows(enumerate_rows(to_dict_records(q.df)))

\* variant: an empty result is reported as None
query_data_none_when_empty(df, cond) ==
    IF df.isNone THEN Absent
    ELSE LET q == DataFrame_query(df, cond)
         IN  IF q.raised \/ Len(q.df.rows) = 0 THEN Absent
             ELSE Rows(enumerate_rows(to_dict_records(q.df)))

query_data(df, cond) ==
    IF df.isNone THEN Absent
    ELSE LET q == DataFrame_query(df, cond)
         IN  IF q.raised THEN Absent
             ELSE Rows(enumerate_rows(to_dict_records(q.df)))

\* variant: self.dataframe = self.dataframe.query(condition)
query_data_dataframe_filtered(df, cond) ==
    IF df.isNone THEN df
    ELSE LET q == DataFrame_query(df, cond) IN IF q.raised THEN df ELSE q.df

\* self.dataframe after get_data and after query_data: neither assigns it
get_data_dataframe(df) == df
query_data_dataframe(df, cond) == df

\* ------------------------------------------------- the store, call by call
Tasks == {1, 2}

IdleTask ==
    [pc |-> "idle", op |-> "none", src |-> NoSource, cond |-> NoCondition,
     local |-> None, ok |-> FALSE, result |-> Absent, seen |-> {}]

vars == <<dataframe, last, loaded, held, task, whole, calls>>
seqVars == <<last, loaded, held>>
concVars == <<task, whole, calls>>

\* had: the table held when the call started (its columns and row count)
Call(op, src, cond, ok, result, had) ==
    [op |-> op, src |-> src, cond |-> cond, ok |-> ok, result |-> result,
     hadTable |-> ~had.isNone, hadColumns |-> had.columns, hadRows |-> Len(had.rows)]

\* CSVPlugin.__init__
Init ==
    /\ dataframe = None
    /\ last = Call("init", NoSource, NoCondition, FALSE, Absent, None)
    /\ loaded = FALSE
    /\ held = EmptyText
    /\ task = [t \in Tasks |-> IdleTask]
    /\ whole = None
    /\ calls = 0

LoadCsv ==
    \E src \in Sources :
        /\ dataframe' = load_csv_dataframe(dataframe, src)
        /\ last' = Call("load_csv", src, NoCondition, load_csv_return(src), Absent, dataframe)
        /\ loaded' = (loaded \/ load_csv_return(src))
        /\ held' = IF load_csv_return(src) THEN src.text ELSE held
        /\ UNCHANGED concVars

GetData ==
    /\ dataframe' = get_data_dataframe(dataframe)
    /\ last' = Call("get_data", NoSource, NoCondition, FALSE, get_data(dataframe), dataframe)
    /\ UNCHANGED <<loaded, held, concVars>>

QueryData ==
    \E cond \in Conditions :
        /\ dataframe' = query_data_dataframe(dataframe, cond)
        /\ last' = Call("query_data", NoSource, cond, FALSE, query_data(dataframe, cond), dataframe)
        /\ UNCHANGED <<loaded, held, concVars>>

Next == LoadCsv \/ GetData \/ QueryData

Spec == Init /\ [][Next]_vars

\* ------------------------------------------- the store, statement by statement
\* Calls of several tasks on one store, interleaved between the statements
\* that read or write self.dataframe.  (Coroutines without an await run each
\* call in one piece; those runs are among the interleavings below.)
ConcTexts ==
    { [empty |-> FALSE, header |-> <<"a", "b">>,
       lines |-> << <<(<<"2">>), (<<"x">>)>>, <<(<<"1", "0">>), (<<"7">>)>> >>],
      [empty |-> FALSE, header |-> <<"b", "c">>,
       lines |-> << <<(<<"1", "0">>), (<<"x">>)>> >>] }
ConcSources ==
    { [kind |-> "path", exists |-> TRUE, text |-> t] : t \in ConcTexts }
    \cup { [kind |-> "path", exists |-> FALSE, text |-> EmptyText] }
ConcConditions ==
    { [kind |-> "cmp", col |-> "a", op |-> ">", rhs |-> IntVal(5)],
      [kind |-> "cmp", col |-> "b", op |-> "==", rhs |-> StrVal(<<"x">>)],
      SyntaxError }

CanBegin(t) == task[t].pc \in {"idle", "returned"} /\ calls < MaxCalls

Begin(t, op, pc, src, cond) ==
    /\ CanBegin(t)
    /\ task' = [task EXCEPT ![t] =
                  [pc |-> pc, op |-> op, src |-> src, cond |-> cond,
                   local |-> None, ok |-> FALSE, result |-> Absent, seen |-> {whole}]]
    /\ calls' = calls + 1
    /\ UNCHANGED <<dataframe, whole, seqVars>>

BeginLoad(t) == \E src \in ConcSources : Begin(t, "load_csv", "load_read", src, NoCondition)
BeginGet(t) == Begin(t, "get_data", "get_check", NoSource, NoCondition)
BeginQuery(t) == \E cond \in ConcConditions : Begin(t, "query_data", "query_check", NoSource, cond)

\* variant: the table is published while only its first row is parsed
load_csv_assigned_partial(parsed) ==
    Frame(parsed.columns, parsed.dtypes, SubSeq(parsed.rows, 1, 1))

\* self.dataframe = pd.read_csv(path): the value the assignment stores
load_csv_assigned(parsed) == parsed

\* load_csv, the right-hand side: isinstance and pd.read_csv(path)
LoadRead(t) ==
    /\ task[t].pc = "load_read"
    /\ IF IsStrOrIOBase(task[t].src) /\ ~read_csv(task[t].src).raised
       THEN task' = [task EXCEPT ![t].pc = "load_assign",
                                 ![t].local = read_csv(task[t].src).df]
       ELSE task' = [task EXCEPT ![t].pc = "returned", ![t].ok = FALSE]
    /\ UNCHANGED <<dataframe, whole, calls, seqVars>>

\* load_csv, the assignment to self.dataframe, and return True
LoadAssign(t) ==
    /\ task[t].pc = "load_assign"
    /\ dataframe' = load_csv_assigned(task[t].local)
    /\ whole' = task[t].local
    /\ task' = [u \in Tasks |->
                  IF u = t THEN [task[u] EXCEPT !.pc = "returned", !.ok = TRUE]
                  ELSE IF task[u].pc \in {"idle", "returned"} THEN task[u]
                  ELSE [task[u] EXCEPT !.seen = @ \cup {task[t].local}]]
    /\ UNCHANGED <<calls, seqVars>>

\* get_data: if self.dataframe is None
GetCheck(t) ==
    /\ task[t].pc = "get_check"
    /\ task' = [task EXCEPT ![t].pc = IF dataframe.isNone THEN "returned" ELSE "get_dict",
                            ![t].result = Absent]
    /\ UNCHANGED <<dataframe, whole, calls, seqVars>>

\* get_data: self.dataframe.to_dict and the returned list
GetDict(t) ==
    /\ task[t].pc = "get_dict"
    /\ task' = [task EXCEPT ![t].pc = "returned",
                            ![t].result = Rows(enumerate_rows(to_dict_records(dataframe)))]
    /\ UNCHANGED <<dataframe, whole, calls, seqVars>>

\* query_data: if self.dataframe is None
QueryCheck(t) ==
    /\ task[t].pc = "query_check"
    /\ task' = [task EXCEPT ![t].pc = IF dataframe.isNone THEN "returned" ELSE "query_eval",
                            ![t].result = Absent]
    /\ UNCHANGED <<dataframe, whole, calls, seqVars>>

\* query_data: self.dataframe.query, to_dict and the returned list, or None
QueryEval(t) ==
    /\ task[t].pc = "query_eval"
    /\ LET q == DataFrame_query(dataframe, task[t].cond)
       IN  task' = [task EXCEPT ![t].pc = "returned",
                                ![t].result = IF q.raised THEN Absent
                                              ELSE Rows(enumerate_rows(to_dict_records(q.df)))]
    /\ UNCHANGED <<dataframe, whole, calls, seqVars>>

ConcNext ==
    \E t \in Tasks :
        \/ BeginLoad(t)
        \/ BeginGet(t)
        \/ BeginQuery(t)
        \/ LoadRead(t)
        \/ LoadAssign(t)
        \/ GetCheck(t)
        \/ GetDict(t)
        \/ QueryCheck(t)
        \/ QueryEval(t)

ConcSpec == Init /\ [][ConcNext]_vars

\* ------------------------------------------------------------ properties
\* helpers of the properties: the text a value was read from
DigitChar(d) == CHOOSE c \in Digits : DigitVal(c) = d

RECURSIVE FormatInt(_)
FormatInt(n) ==
    IF n < 10 THEN <<DigitChar(n)>>
    ELSE Append(FormatInt(n \div 10), DigitChar(n % 10))

CellOf(v) ==
    IF v.kind = "nan" THEN <<>>
    ELSE IF v.kind = "str" THEN v.s
    ELSE FormatInt(v.n)

HeaderNames(text) == { text.header[j] : j \in 1..Len(text.header) }

HasColumn(df, name) == \E j \in 1..Len(df.columns) : df.columns[j] = name
ColumnIndex(df, name) == CHOOSE j \in 1..Len(df.columns) : df.columns[j] = name
HasNumericDtype(df, name) ==
    HasColumn(df, name) /\ df.dtypes[ColumnIndex(df, name)] \in {"int64", "float64"}
\* a column of numbers, with or without missing values
IsNumericColumn(df, name) ==
    /\ HasNumericDtype(df, name)
    /\ \E i \in 1..Len(df.rows) : IsNumber(df.rows[i][ColumnIndex(df, name)])
HasNoMissing(df, name) ==
    HasColumn(df, name) /\ \A i \in 1..Len(df.rows) : df.rows[i][ColumnIndex(df, name)].kind # "nan"

\* the predicate a comparison states about one value
Satisfies(v, cond) ==
    \/ /\ IsNumber(v) /\ IsNumber(cond.rhs)
       /\ \/ cond.op = ">" /\ v.n > cond.rhs.n
          \/ cond.op = "<=" /\ v.n <= cond.rhs.n
          \/ cond.op = "==" /\ v.n = cond.rhs.n
    \/ /\ v.kind = "str" /\ cond.rhs.kind = "str"
       /\ \/ cond.op = ">" /\ StrLess(cond.rhs.s, v.s)
          \/ cond.op = "<=" /\ (v.s = cond.rhs.s \/ StrLess(v.s, cond.rhs.s))
          \/ cond.op = "==" /\ v.s = cond.rhs.s

\* the literal's type does not match the column's: a column holding strings
\* against a number, or a numeric column against a string
TypeMismatch(df, cond) ==
    /\ HasColumn(df, cond.col)
    /\ \/ /\ IsNumber(cond.rhs)
          /\ \E i \in 1..Len(df.rows) : df.rows[i][ColumnIndex(df, cond.col)].kind = "str"
       \/ /\ cond.rhs.kind = "str"
          /\ HasNumericDtype(df, cond.col)

Malformed(df, cond) ==
    \/ cond.kind = "syntax"
    \/ ~HasColumn(df, cond.col)
    \/ TypeMismatch(df, cond)

MalformedOrdering(df, cond) ==
    \/ cond.kind = "syntax"
    \/ ~HasColumn(df, cond.col)
    \/ TypeMismatch(df, cond) /\ cond.op \in {">", "<="}

WellFormed(df, cond) == cond.kind = "cmp" /\ ~Malformed(df, cond)

IsFailingSource(src) ==
    src.kind = "other" \/ ~src.exists \/ src.text \in MalformedTexts

\* C1: a load_csv call that fails (missing path, malformed CSV, argument of
\* the wrong kind) returns False and leaves what get_data returns unchanged.
C1_FailedLoadKeepsTable ==
    [][(last'.op = "load_csv" /\ IsFailingSource(last'.src))
         => (~last'.ok /\ get_data(dataframe') = get_data(dataframe))]_vars

C1_Witness ==
    /\ last.op = "load_csv" /\ ~last.ok /\ last.src.text = LongLineText
    /\ last.hadTable /\ ~dataframe.isNone /\ Len(dataframe.rows) = 2

\* C2: get_data after a successful load of a text with N data lines returns
\* N rows, indexed 0..N-1 in file order, the i-th mapping each header name
\* to the value of the i-th line's field.
C2_GetDataReturnsFileRows ==
    (last.op = "get_data" /\ loaded) =>
        LET r == last.result
        IN  /\ ~r.isNone
            /\ Len(r.rows) = Len(held.lines)
            /\ \A i \in 1..Len(r.rows) :
                  /\ r.rows[i].index = i - 1
                  /\ DOMAIN r.rows[i].data = HeaderNames(held)
                  /\ \A j \in 1..Len(held.header) :
                        CellOf(r.rows[i].data[held.header[j]]) = held.lines[i][j]

C2_Witness ==
    /\ last.op = "get_data" /\ loaded
    /\ Len(last.result.rows) = 2
    /\ last.result.rows[2].index = 1
    /\ last.result.rows[1].data # last.result.rows[2].data

\* C3: a query that succeeds returns exactly the rows of the table that
\* satisfy the condition, in table order, indexed 0..k-1 by their position
\* in the result.
C3_QueryIsStableFilter ==
    (last.op = "query_data" /\ ~last.result.isNone) =>
        LET all == get_data(dataframe).rows
            r == last.result.rows
            hits == { i \in 1..Len(all) : Satisfies(all[i].data[last.cond.col], last.cond) }
        IN  /\ Len(r) = Cardinality(hits)
            /\ \A k \in 1..Len(r) :
                  /\ r[k].index = k - 1
                  /\ \E i \in hits :
                        /\ Cardinality({ h \in hits : h < i }) = k - 1
                        /\ r[k].data = all[i].data

C3_Witness ==
    /\ last.op = "query_data" /\ ~last.result.isNone
    /\ Len(dataframe.rows) = 2
    /\ Len(last.result.rows) = 1
    /\ last.result.rows[1].data = get_data(dataframe).rows[2].data
    /\ last.result.rows[1].data # get_data(dataframe).rows[1].data

\* C4: while no load_csv call has returned True, every get_data and
\* query_data call returns None.
C4_AbsentBeforeFirstLoad ==
    (~loaded /\ last.op \in {"get_data", "query_data"}) => last.result.isNone

C4_Witness ==
    ~loaded /\ last.op = "query_data" /\ last.cond.kind = "cmp" /\ last.result.isNone

C6_NoMatchReturnsEmpty ==
    ( /\ last.op = "query_data" /\ last.hadTable
      /\ WellFormed(dataframe, last.cond)
      /\ \A i \in 1..Len(dataframe.rows) :
            ~Satisfies(dataframe.rows[i][ColumnIndex(dataframe, last.cond.col)], last.cond) )
        => (last.result = Rows(<<>>) /\ last.result # Absent)

C6_Witness ==
    /\ last.op = "query_data" /\ last.hadTable
    /\ WellFormed(dataframe, last.cond)
    /\ Len(dataframe.rows) = 2
    /\ last.result = Rows(<<>>)

\* the rows of "col > X" and of "col <= X" split the rows of the table
Partitions(df, gt, cond) ==
    LET le == query_data(df, [cond EXCEPT !.op = "<="])
        all == get_data(df).rows
        InResult(res, i) == \E k \in 1..Len(res.rows) : res.rows[k].data = all[i].data
    IN  /\ ~gt.isNone /\ ~le.isNone
        /\ Len(gt.rows) + Len(le.rows) = Len(all)
        /\ \A i \in 1..Len(all) : InResult(gt, i) # InResult(le, i)

C8_LoadReplacesTable ==
    (last.op = "load_csv" /\ last.ok) =>
        LET fresh == load_csv_dataframe(None, last.src)
        IN  /\ get_data(dataframe) = get_data(fresh)
            /\ \A cond \in Conditions : query_data(dataframe, cond) = query_data(fresh, cond)
            /\ Len(get_data(dataframe).rows) = Len(last.src.text.lines)
            /\ \A i \in 1..Len(get_data(dataframe).rows) :
                  DOMAIN get_data(dataframe).rows[i].data = HeaderNames(last.src.text)

C8_Witness ==
    /\ last.op = "load_csv" /\ last.ok
    /\ last.hadTable /\ last.hadColumns = <<"a", "b">> /\ last.hadRows = 2
    /\ dataframe.columns = <<"b", "c">> /\ Len(dataframe.rows) = 1

\* C10: get_data and query_data leave the held table as it was: get_data
\* after the call returns what it returned before.
C10_ReadsKeepTable ==
    [][(last'.op \in {"get_data", "query_data"})
         => (dataframe' = dataframe /\ get_data(dataframe') = get_data(dataframe))]_vars

C10_Witness ==
    /\ last.op = "query_data" /\ last.hadTable
    /\ ~last.result.isNone
    /\ Len(last.result.rows) = 1 /\ Len(dataframe.rows) = 2

\* C9: with load_csv interleaved with get_data and query_data, every
\* returned result is the result on one whole table: one that was held at
\* some moment of the call (or no table), never a part of one or a mixture.
C9_ReadsSeeOneWholeTable ==
    \A t \in Tasks :
        (task[t].pc = "returned" /\ task[t].op \in {"get_data", "query_data"}) =>
            \E T \in task[t].seen :
                task[t].result = IF task[t].op = "get_data" THEN get_data(T)
                                 ELSE query_data(T, task[t].cond)

\* a get_data call that overlapped a load and returned the newly loaded rows
C9_Witness ==
    \E t \in Tasks :
        /\ task[t].pc = "returned" /\ task[t].op = "get_data"
        /\ Cardinality(task[t].seen) = 2
        /\ ~task[t].result.isNone
        /\ task[t].result = get_data(whole)
        /\ \E u \in Tasks \ {t} : task[u].pc = "returned" /\ task[u].op = "load_csv" /\ task[u].ok

TypeOK ==
    /\ dataframe.isNone \in BOOLEAN
    /\ last.op \in {"init", "load_csv", "get_data", "query_data"}
    /\ loaded \in BOOLEAN

====
